---- MODULE Spec2Model ----
(***************************************************************************)
(* A model of server.py: the room store kept in rooms.json, the audit log  *)
(* assignments.jsonl, the request handlers of /api/room, /api/join and     *)
(* /api/me run by the threads of ThreadingHTTPServer, and the assignment   *)
(* engine (_assign_lanes, _draw_tasks, _assign_if_ready).                  *)
(*                                                                         *)
(* Python dicts are functions whose DOMAIN is the set of keys present, so  *)
(* that an optional key (undercoverIndex, lane, role, ...) is either in    *)
(* the DOMAIN or not.  Python lists are sequences; a Python index k is the *)
(* position k + 1 of the sequence.                                         *)
(*                                                                         *)
(* Strings of the source are rendered in ASCII:                            *)
(*   task types  "eco" "tf" "act" "psy"  for the four "type" values,       *)
(*   lanes       "top" "jungle" "mid" "bot" "support"  for LANE_POOL,      *)
(*   roles       "Impostor" / "Normal"  for the two role strings.          *)
(***************************************************************************)
EXTENDS Integers, Sequences, FiniteSets, TLC

(***************************************************************************)
(* Bounds of the model.                                                    *)
(***************************************************************************)
\* worker threads of the server handling requests at the same time
NumThreads == 2
\* room codes _new_room_code can return
NumCodes == 1
\* names players type in
NumNames == 3
\* tokens handed out (successful joins) in one behaviour
MaxJoins == 3
\* largest maxPlayers asked of /api/room when requests run concurrently
MaxRoomSize == 2
\* in the room specifications, only the last iterations of the shuffles of
\* the lanes and of the task pool draw freely, the earlier ones draw j = i:
\* the last ConcWindow iterations when requests of all kinds run
\* concurrently (Spec), the last RoomWindow iterations otherwise
ConcWindow == 0
RoomWindow == 1
\* in the specification of two room codes, /api/room requests arrive while
\* the clock reads less than MaxTicks
MaxTicks == 2
\* in the specification of /api/room, each number of the body is drawn
\* from InputSpan below the least to InputSpan above the greatest value its
\* clamp keeps
InputSpan == 2
\* in the lane specification, at most LaneSwaps iterations of the shuffle
\* draw j # i
LaneSwaps == 2
\* in the task draw specification, at most TaskSwaps iterations of the
\* shuffle draw j # i
TaskSwaps == 1

(***************************************************************************)
(* Program constants.                                                      *)
(***************************************************************************)
MinPlayers == 2
MaxPlayers == 12
MinTaskCount == 3
MaxTaskCount == 5
MinSameType == 1
MaxSameType == 5

TaskTypes == <<"eco", "tf", "act", "psy">>

TASK_POOL ==
  << [id |-> "eco-1", type |-> "eco"], [id |-> "eco-2", type |-> "eco"],
     [id |-> "eco-3", type |-> "eco"], [id |-> "eco-4", type |-> "eco"],
     [id |-> "eco-5", type |-> "eco"],
     [id |-> "tf-1", type |-> "tf"], [id |-> "tf-2", type |-> "tf"],
     [id |-> "tf-3", type |-> "tf"], [id |-> "tf-4", type |-> "tf"],
     [id |-> "tf-5", type |-> "tf"],
     [id |-> "act-1", type |-> "act"], [id |-> "act-2", type |-> "act"],
     [id |-> "act-3", type |-> "act"], [id |-> "act-4", type |-> "act"],
     [id |-> "act-5", type |-> "act"],
     [id |-> "psy-1", type |-> "psy"], [id |-> "psy-2", type |-> "psy"],
     [id |-> "psy-3", type |-> "psy"], [id |-> "psy-4", type |-> "psy"],
     [id |-> "psy-5", type |-> "psy"] >>

LANE_POOL == <<"top", "jungle", "mid", "bot", "support">>

\* the role strings of lines 194-195, written in English
Impostor == "Impostor"
Normal == "Normal"

(***************************************************************************)
(* Helpers for dicts and lists.                                            *)
(***************************************************************************)
Has(d, k) == k \in DOMAIN d

\* d with the keys of upd set (dict assignment d[k] = v for each key of upd)
Put(d, upd) == upd @@ d

Max2(a, b) == IF a >= b THEN a ELSE b
Min2(a, b) == IF a <= b THEN a ELSE b

\* _clamp
\* (ClampSwapped: min(lo, max(hi, n)))
ClampSwapped(n, lo, hi) == Min2(lo, Max2(hi, n))
Clamp(n, lo, hi) == Max2(lo, Min2(hi, n))

\* lanes[i], lanes[j] = lanes[j], lanes[i] with Python indices i, j
\* (SwapCopy: lanes[i] = lanes[j] alone, the other half of the swap lost)
SwapCopy(s, i, j) == [s EXCEPT ![i + 1] = s[j + 1]]
Swap(s, i, j) == [s EXCEPT ![i + 1] = s[j + 1], ![j + 1] = s[i + 1]]

(***************************************************************************)
(* The random source.  secrets.randbelow(i + 1) returns any of 0..i; the   *)
(* draws of one shuffle loop over a list of length n are a function js on  *)
(* 1..n-1 with js[i] in 0..i.  RandDraws(n, w) is the set of those js in   *)
(* which only the last w iterations of the loop (i <= w) draw freely and   *)
(* the earlier ones draw j = i.                                            *)
(***************************************************************************)
NoSwapDraws(n) == [i \in 1..(n - 1) |-> i]

RandDraws(n, w) ==
  LET v == Min2(w, n - 1)
  IN  { [i \in 1..(n - 1) |-> IF i <= v THEN f[i] ELSE i] :
        f \in { g \in [1..v -> 0..v] : \A i \in 1..v : g[i] <= i } }

\* the loop  for i in range(len(s) - 1, 0, -1): j = randbelow(i + 1); swap
RECURSIVE ShuffleFrom(_, _, _)
ShuffleFrom(s, js, i) ==
  IF i < 1 THEN s ELSE ShuffleFrom(Swap(s, i, js[i]), js, i - 1)

Shuffle(s, js) == ShuffleFrom(s, js, Len(s) - 1)

(***************************************************************************)
(* _assign_lanes                                                           *)
(***************************************************************************)
\* the lane list before the shuffle
LaneList(max_players) ==
  IF max_players <= Len(LANE_POOL)
  THEN SubSeq(LANE_POOL, 1, max_players)
  ELSE [k \in 1..max_players |-> LANE_POOL[((k - 1) % Len(LANE_POOL)) + 1]]

\* the players with p["lane"] set from the shuffled lanes
\* (AssignLanesSkipLast: idx < len(lanes) - 1, the last player gets no lane)
AssignLanesSkipLast(players, max_players, js) ==
  IF Len(players) = 0 THEN players
  ELSE LET lanes == Shuffle(LaneList(max_players), js)
       IN  [idx \in 1..Len(players) |->
              IF idx <= Len(lanes) - 1
              THEN Put(players[idx], [lane |-> lanes[idx]])
              ELSE players[idx]]
AssignLanes(players, max_players, js) ==
  IF Len(players) = 0 THEN players
  ELSE LET lanes == Shuffle(LaneList(max_players), js)
       IN  [idx \in 1..Len(players) |->
              IF idx <= Len(lanes)
              THEN Put(players[idx], [lane |-> lanes[idx]])
              ELSE players[idx]]

(***************************************************************************)
(* _draw_tasks                                                             *)
(***************************************************************************)
TypeCount(picked, type) ==
  Cardinality({k \in 1..Len(picked) : picked[k].type = type})

\* first loop: walk the pool from position k, keep a task unless its type
\* already has max_same_type picks, stop at count picks
\* (GreedyPassOver: used > max_same_type, one task too many per type)
RECURSIVE GreedyPassOver(_, _, _, _, _)
GreedyPassOver(pool, k, picked, count, max_same_type) ==
  IF k > Len(pool) THEN picked
  ELSE IF TypeCount(picked, pool[k].type) > max_same_type
       THEN GreedyPassOver(pool, k + 1, picked, count, max_same_type)
       ELSE LET more == Append(picked, pool[k])
            IN  IF Len(more) >= count THEN more
                ELSE GreedyPassOver(pool, k + 1, more, count, max_same_type)
RECURSIVE GreedyPass(_, _, _, _, _)
GreedyPass(pool, k, picked, count, max_same_type) ==
  IF k > Len(pool) THEN picked
  ELSE IF TypeCount(picked, pool[k].type) >= max_same_type
       THEN GreedyPass(pool, k + 1, picked, count, max_same_type)
       ELSE LET more == Append(picked, pool[k])
            IN  IF Len(more) >= count THEN more
                ELSE GreedyPass(pool, k + 1, more, count, max_same_type)

\* second loop: walk the pool again, add any task whose id is not picked
\* (BackfillPassNoSkip: the test of line 159 is missing)
RECURSIVE BackfillPassNoSkip(_, _, _, _)
BackfillPassNoSkip(pool, k, picked, count) ==
  IF k > Len(pool) THEN picked
  ELSE LET more == Append(picked, pool[k])
       IN  IF Len(more) >= count THEN more
           ELSE BackfillPassNoSkip(pool, k + 1, more, count)
RECURSIVE BackfillPass(_, _, _, _)
BackfillPass(pool, k, picked, count) ==
  IF k > Len(pool) THEN picked
  ELSE IF \E x \in 1..Len(picked) : picked[x].id = pool[k].id
       THEN BackfillPass(pool, k + 1, picked, count)
       ELSE LET more == Append(picked, pool[k])
            IN  IF Len(more) >= count THEN more
                ELSE BackfillPass(pool, k + 1, more, count)

\* the part of _draw_tasks after the shuffle
DrawFrom(pool, count, max_same_type) ==
  LET picked == GreedyPass(pool, 1, <<>>, count, max_same_type)
      filled == IF Len(picked) < count
                THEN BackfillPass(pool, 1, picked, count)
                ELSE picked
  IN  SubSeq(filled, 1, Min2(count, Len(filled)))

DrawTasks(count, max_same_type, js) ==
  DrawFrom(Shuffle(TASK_POOL, js),
           Clamp(count, MinTaskCount, MaxTaskCount),
           Clamp(max_same_type, MinSameType, MaxSameType))

(***************************************************************************)
(* State.                                                                  *)
(*   store  rooms.json: data["rooms"], a dict from room code to room       *)
(*   audit  assignments.jsonl: the list of records appended so far         *)
(*   clock  the time the next call of _now_ms returns                      *)
(*   ntok   the number of tokens secrets.token_urlsafe has returned        *)
(*   th     per server thread: the request it handles, its local variables *)
(*          (data, the loop index of _assign_if_ready) and the response it *)
(*          is sending                                                     *)
(*   fn     the arguments and the result of a function applied on its own  *)
(*          (the specifications of _draw_tasks and _assign_lanes)          *)
(***************************************************************************)
VARIABLES store, audit, clock, ntok, th, fn

vars == <<store, audit, clock, ntok, th, fn>>

Threads == 1..NumThreads

NoRooms == [c \in {} |-> 0]
NoRequest == [op |-> "none", code |-> "", name |-> "", token |-> 0]
NoResponse == [status |-> 0]
IdleThread ==
  [pc |-> "idle", req |-> NoRequest, data |-> NoRooms, idx |-> 0,
   resp |-> NoResponse]
NoFn == [op |-> "none"]

(***************************************************************************)
(* Inputs of the requests.                                                 *)
(***************************************************************************)
CodePool == <<"AAAAAA", "BBBBBB", "CCCCCC", "DDDDDD">>
Codes == {CodePool[k] : k \in 1..NumCodes}

NamePool == <<"ann", "bob", "cat", "dan", "eve", "fay", "gus", "hal",
              "ida", "jon", "kim", "leo", "mia">>
Names == {NamePool[k] : k \in 1..NumNames}

\* defaults of /api/room: body.get("taskCount", 4), body.get("maxSameType", 2)
DefaultTaskCount == 4
DefaultSameType == 2

\* _now_ms: the clock is logical, each reading is later than the one before;
\* Tick(n) is the clock after n readings
Tick(n) == clock + n

(***************************************************************************)
(* _assign_if_ready                                                        *)
(***************************************************************************)
\* neither early return is taken
\* (ReadyLate: len(players) <= max_players returns;
\*  ReadyIgnoresAssigned: the first early return is missing)
ReadyLate(room) ==
  /\ ~room.assigned
  /\ ~(Len(room.players) <= room.maxPlayers)
ReadyIgnoresAssigned(room) ==
  ~(Len(room.players) < room.maxPlayers)
Ready(room) ==
  /\ ~room.assigned
  /\ ~(Len(room.players) < room.maxPlayers)

\* lines 181-190: the lanes, the impostor index and the tasks are drawn and
\* the room's assignment keys are set
\* (AssignRoomUnflagged: room["assigned"] = True is missing)
AssignRoomUnflagged(room, lane_js, undercover_index, task_js, now) ==
  Put(room,
      [players |-> AssignLanes(room.players, room.maxPlayers, lane_js),
       undercoverIndex |-> undercover_index,
       undercoverTasks |-> DrawTasks(room.settings.taskCount,
                                     room.settings.maxSameType, task_js),
       assignedAt |-> now])
AssignRoom(room, lane_js, undercover_index, task_js, now) ==
  Put(room,
      [players |-> AssignLanes(room.players, room.maxPlayers, lane_js),
       assigned |-> TRUE,
       undercoverIndex |-> undercover_index,
       undercoverTasks |-> DrawTasks(room.settings.taskCount,
                                     room.settings.maxSameType, task_js),
       assignedAt |-> now])

\* one iteration of the loop of lines 192-208 for Python index idx
\* (RoleAtUpTo: idx <= undercover_index)
RoleAtUpTo(room, idx) ==
  IF idx <= room.undercoverIndex THEN Impostor ELSE Normal
RoleAt(room, idx) ==
  IF idx = room.undercoverIndex THEN Impostor ELSE Normal

AssignPlayer(room, idx) ==
  [room EXCEPT !.players[idx + 1] =
     Put(@, [role |-> RoleAt(room, idx), assignedAt |-> room.assignedAt])]

\* (AuditRecordTasksForAll: "tasks": tasks, whatever the role)
AuditRecordTasksForAll(room, idx) ==
  LET p == room.players[idx + 1]
  IN  [ts |-> room.assignedAt,
       room |-> room.code,
       name |-> p.name,
       role |-> RoleAt(room, idx),
       lane |-> IF Has(p, "lane") THEN p.lane ELSE "None",
       tasks |-> room.undercoverTasks,
       settings |-> room.settings]
AuditRecord(room, idx) ==
  LET p == room.players[idx + 1]
      role == RoleAt(room, idx)
  IN  [ts |-> room.assignedAt,
       room |-> room.code,
       name |-> p.name,
       role |-> role,
       lane |-> IF Has(p, "lane") THEN p.lane ELSE "None",
       tasks |-> IF role = Impostor THEN room.undercoverTasks ELSE <<>>,
       settings |-> room.settings]

(***************************************************************************)
(* Responses.                                                              *)
(***************************************************************************)
\* _send_json(status, {"error": ...}); the error texts are written as the
\* names of the cases they report
Error(status, error) == [status |-> status, error |-> error]

\* Python index of the first player with the token, -1 when there is none
\* (IndexOfTokenFirst: the first player, whatever the token)
IndexOfTokenFirst(players, token) == IF Len(players) > 0 THEN 0 ELSE -1
IndexOfToken(players, token) ==
  IF \E k \in 1..Len(players) : players[k].token = token
  THEN (CHOOSE k \in 1..Len(players) :
          /\ players[k].token = token
          /\ \A h \in 1..(k - 1) : players[h].token # token) - 1
  ELSE -1

StatusOf(room) == IF room.assigned THEN "assigned" ELSE "waiting"

\* /api/room, line 331
RoomResponse(room) ==
  [status |-> 200, code |-> room.code, maxPlayers |-> room.maxPlayers,
   settings |-> room.settings]

\* /api/join, lines 359-376
\* (JoinResponseOneBased: idx + 1 == undercoverIndex)
JoinResponseOneBased(room, token, name) ==
  LET players == room.players
      base == [status |-> 200, token |-> token, state |-> StatusOf(room),
               room |-> room.code, maxPlayers |-> room.maxPlayers,
               joined |-> Len(players), name |-> name]
      idx == IndexOfToken(players, token)
      role == IF idx + 1 = room.undercoverIndex THEN Impostor ELSE Normal
      more == [role |-> role,
               tasks |-> IF role = Impostor THEN room.undercoverTasks ELSE <<>>,
               settings |-> room.settings]
      lane == IF 0 <= idx /\ idx < Len(players)
              THEN [lane |-> IF Has(players[idx + 1], "lane")
                             THEN players[idx + 1].lane ELSE "None"]
              ELSE <<>>
  IN  IF room.assigned THEN Put(base, lane @@ more) ELSE base
JoinResponse(room, token, name) ==
  LET players == room.players
      base == [status |-> 200, token |-> token, state |-> StatusOf(room),
               room |-> room.code, maxPlayers |-> room.maxPlayers,
               joined |-> Len(players), name |-> name]
      idx == IndexOfToken(players, token)
      role == IF idx = room.undercoverIndex THEN Impostor ELSE Normal
      more == [role |-> role,
               tasks |-> IF role = Impostor THEN room.undercoverTasks ELSE <<>>,
               settings |-> room.settings]
      lane == IF 0 <= idx /\ idx < Len(players)
              THEN [lane |-> IF Has(players[idx + 1], "lane")
                             THEN players[idx + 1].lane ELSE "None"]
              ELSE <<>>
  IN  IF room.assigned THEN Put(base, lane @@ more) ELSE base

\* /api/me, lines 275-293
\* (MeResponseLeaks: the tasks are returned whatever the role)
MeResponseLeaks(room, token) ==
  LET players == room.players
      idx == IndexOfToken(players, token)
      me == players[idx + 1]
      base == [status |-> 200, state |-> StatusOf(room), room |-> room.code,
               maxPlayers |-> room.maxPlayers, joined |-> Len(players),
               name |-> me.name]
      more == [role |-> IF Has(me, "role") THEN me.role ELSE "None",
               tasks |-> room.undercoverTasks,
               settings |-> room.settings,
               lane |-> IF Has(me, "lane") THEN me.lane ELSE "None"]
  IN  IF idx < 0 THEN Error(403, "InvalidToken")
      ELSE IF room.assigned THEN Put(base, more) ELSE base
MeResponse(room, token) ==
  LET players == room.players
      idx == IndexOfToken(players, token)
      me == players[idx + 1]
      base == [status |-> 200, state |-> StatusOf(room), room |-> room.code,
               maxPlayers |-> room.maxPlayers, joined |-> Len(players),
               name |-> me.name]
      role == IF Has(me, "role") THEN me.role ELSE "None"
      more == [role |-> role,
               tasks |-> IF role = Impostor THEN room.undercoverTasks ELSE <<>>,
               settings |-> room.settings,
               lane |-> IF Has(me, "lane") THEN me.lane ELSE "None"]
  IN  IF idx < 0 THEN Error(403, "InvalidToken")
      ELSE IF room.assigned THEN Put(base, more) ELSE base

(***************************************************************************)
(* The request handlers.  A thread handles one request at a time.  What a  *)
(* handler does between two accesses to a file touches only its own local  *)
(* data, so it is one step with the file access before it:                 *)
(*   idle  -> audit/save/idle   CreateRoom, JoinRoom, GetView:             *)
(*                   data = _load_rooms() and the handler's work on data   *)
(*                   up to its first write to a file, or an error response *)
(*   audit -> audit/save        Audit: one iteration of the loop of        *)
(*                   _assign_if_ready, which appends one audit record      *)
(*   save  -> reply             Save: _save_rooms(data) and the response   *)
(*   reply -> idle              Reply: _send_json has written the response *)
(***************************************************************************)
Request(op, code, name, token) ==
  [op |-> op, code |-> code, name |-> name, token |-> token]

\* the thread at pc, handling req on data
Busy(pc, req, data) ==
  [pc |-> pc, req |-> req, data |-> data, idx |-> 0, resp |-> NoResponse]

\* the thread in self._send_json(status, obj), data still in scope
Sending(req, data, resp) ==
  [pc |-> "reply", req |-> req, data |-> data, idx |-> 0, resp |-> resp]

\* _assign_if_ready(room) called by thread t handling req on data, up to the
\* loop, after n readings of the clock by the handler; w bounds the draws
AssignIfReady(t, req, data, room, n, w) ==
  IF Ready(room)
  THEN \E lane_js \in RandDraws(room.maxPlayers, w),
          undercover_index \in 0..(room.maxPlayers - 1),
          task_js \in RandDraws(Len(TASK_POOL), w) :
         /\ th' = [th EXCEPT ![t] =
                     Busy("audit", req,
                          (room.code :>
                             AssignRoom(room, lane_js, undercover_index, task_js,
                                        Tick(n)))
                          @@ data)]
         /\ clock' = Tick(n + 1)
  ELSE /\ th' = [th EXCEPT ![t] = Busy("save", req, (room.code :> room) @@ data)]
       /\ clock' = Tick(n)

\* /api/room, lines 307-329, with the body's taskCount, maxSameType and
\* maxPlayers and the codes _new_room_code can return; the request keeps
\* the body it came with
CreateRoomWith(t, task_count, max_same_type, max_players, codes) ==
  /\ th[t].pc = "idle"
  /\ \E code \in codes \ DOMAIN store :
       LET room == [code |-> code,
                    createdAt |-> Tick(0),
                    maxPlayers |-> Clamp(max_players, MinPlayers, MaxPlayers),
                    settings |->
                      [taskCount |-> Clamp(task_count, MinTaskCount, MaxTaskCount),
                       maxSameType |-> Clamp(max_same_type, MinSameType, MaxSameType)],
                    players |-> <<>>,
                    assigned |-> FALSE]
           body == [taskCount |-> task_count, maxSameType |-> max_same_type,
                    maxPlayers |-> max_players]
       IN  th' = [th EXCEPT ![t] =
                    Busy("save", Put(Request("room", code, "", 0), [body |-> body]),
                         (code :> room) @@ store)]
  /\ clock' = Tick(1)
  /\ UNCHANGED <<store, audit, ntok, fn>>

\* /api/room with a body that has maxPlayers alone
CreateRoom(t, max_players) ==
  CreateRoomWith(t, DefaultTaskCount, DefaultSameType, max_players, Codes)

\* a player of the room has the name: line 346
\* (NameTakenLast: the name is compared with the last player's alone)
NameTakenLast(players, name) ==
  Len(players) > 0 /\ players[Len(players)].name = name
NameTaken(players, name) ==
  \E k \in 1..Len(players) : players[k].name = name

\* the room is full: line 349
\* (IsFullOver: len(players) > maxPlayers)
IsFullOver(players, room) == Len(players) > room.maxPlayers
IsFull(players, room) == Len(players) >= room.maxPlayers

\* /api/join, lines 340-356
JoinRoom(t, code, name, w) ==
  /\ th[t].pc = "idle"
  /\ LET req == Request("join", code, name, 0)
     IN  IF ~Has(store, code)
         THEN /\ th' = [th EXCEPT ![t] = Sending(req, store, Error(404, "RoomNotFound"))]
              /\ UNCHANGED <<ntok, clock>>
         ELSE LET room == store[code]
                  players == room.players
              IN  IF NameTaken(players, name)
                  THEN /\ th' = [th EXCEPT ![t] = Sending(req, store, Error(409, "NameTaken"))]
                       /\ UNCHANGED <<ntok, clock>>
                  ELSE IF IsFull(players, room)
                  THEN /\ th' = [th EXCEPT ![t] = Sending(req, store, Error(409, "RoomFull"))]
                       /\ UNCHANGED <<ntok, clock>>
                  ELSE LET token == ntok + 1
                           joined == Append(players,
                                            [name |-> name, token |-> token,
                                             joinedAt |-> Tick(0)])
                       IN  /\ ntok' = token
                           /\ AssignIfReady(t, Request("join", code, name, token),
                                            store, [room EXCEPT !.players = joined], 1, w)
  /\ UNCHANGED <<store, audit, fn>>

\* /api/me, lines 267-272
GetView(t, code, token, w) ==
  /\ th[t].pc = "idle"
  /\ LET req == Request("me", code, "", token)
     IN  IF ~Has(store, code)
         THEN /\ th' = [th EXCEPT ![t] = Sending(req, store, Error(404, "RoomNotFound"))]
              /\ UNCHANGED clock
         ELSE AssignIfReady(t, req, store, store[code], 0, w)
  /\ UNCHANGED <<store, audit, ntok, fn>>

\* _jsonl_append(path, obj)
JsonlAppend(log, obj) == Append(log, obj)

\* one iteration of the loop of _assign_if_ready, lines 192-208
Audit(t) ==
  /\ th[t].pc = "audit"
  /\ LET code == th[t].req.code
         room == th[t].data[code]
         idx == th[t].idx
     IN  IF idx < Len(room.players)
         THEN /\ th' = [th EXCEPT ![t].data[code] = AssignPlayer(room, idx),
                                  ![t].idx = idx + 1]
              /\ audit' = JsonlAppend(audit, AuditRecord(room, idx))
         ELSE /\ th' = [th EXCEPT ![t].pc = "save"]
              /\ UNCHANGED audit
  /\ UNCHANGED <<store, clock, ntok, fn>>

\* the response after _save_rooms(data)
Respond(req, room) ==
  CASE req.op = "room" -> RoomResponse(room)
    [] req.op = "join" -> JoinResponse(room, req.token, req.name)
    [] req.op = "me" -> MeResponse(room, req.token)

\* _save_rooms(data) and the response
Save(t) ==
  /\ th[t].pc = "save"
  /\ store' = th[t].data
  /\ th' = [th EXCEPT ![t] =
              Sending(th[t].req, th[t].data,
                      Respond(th[t].req, th[t].data[th[t].req.code]))]
  /\ UNCHANGED <<audit, clock, ntok, fn>>

\* the response is written, the handler returns
Reply(t) ==
  /\ th[t].pc = "reply"
  /\ th' = [th EXCEPT ![t] = IdleThread]
  /\ UNCHANGED <<store, audit, clock, ntok, fn>>

(***************************************************************************)
(* The server: its threads take requests at any time.  The threads are     *)
(* interchangeable; a request is taken by the idle thread of least index.  *)
(***************************************************************************)
Takes(t) == \A u \in Threads : th[u].pc = "idle" => t <= u

\* the tokens sent with /api/me: those of the players stored in the room,
\* and 0 for every token that none of them holds
TokensOf(code) ==
  {0} \cup (IF code \in DOMAIN store
            THEN {store[code].players[k].token : k \in 1..Len(store[code].players)}
            ELSE {})

Init ==
  /\ store = NoRooms /\ audit = <<>> /\ clock = 0 /\ ntok = 0
  /\ th = [t \in Threads |-> IdleThread]
  /\ fn = NoFn

Next ==
  \/ \E t \in Threads, m \in MinPlayers..MaxRoomSize :
       Takes(t) /\ CreateRoom(t, m)
  \/ \E t \in Threads, code \in Codes, name \in Names :
       Takes(t) /\ ntok < MaxJoins /\ JoinRoom(t, code, name, ConcWindow)
  \/ \E t \in Threads, code \in Codes : \E token \in TokensOf(code) :
       Takes(t) /\ GetView(t, code, token, ConcWindow)
  \/ \E t \in Threads : Audit(t)
  \/ \E t \in Threads : Save(t)
  \/ \E t \in Threads : Reply(t)

Spec == Init /\ [][Next]_vars

(***************************************************************************)
(* The server handling one request after the other: a request arrives      *)
(* when no thread is busy.  One room, of any size, is created in the empty *)
(* store; the k-th player to join it is NamePool[k], and one more tries    *)
(* after the room is full.                                                 *)
(***************************************************************************)
AllIdle == \A t \in Threads : th[t].pc = "idle"

NextName(code) == NamePool[Len(store[code].players) + 1]

NextSeq ==
  \/ \E t \in Threads, m \in MinPlayers..MaxPlayers :
       AllIdle /\ store = NoRooms /\ Takes(t) /\ CreateRoom(t, m)
  \/ \E t \in Threads, code \in DOMAIN store :
       AllIdle /\ Takes(t) /\ JoinRoom(t, code, NextName(code), RoomWindow)
  \/ \E t \in Threads, code \in Codes : \E token \in TokensOf(code) :
       AllIdle /\ Takes(t) /\ GetView(t, code, token, RoomWindow)
  \/ \E t \in Threads : Audit(t)
  \/ \E t \in Threads : Save(t)
  \/ \E t \in Threads : Reply(t)

SpecSeq == Init /\ [][NextSeq]_vars

(***************************************************************************)
(* Joins racing to fill a room: a room is created in the empty store,      *)
(* then as many joins as the room has slots arrive at any time, the k-th   *)
(* with the name NamePool[k], and nothing else.                            *)
(***************************************************************************)
NextRace ==
  \/ \E t \in Threads, m \in MinPlayers..MaxRoomSize :
       AllIdle /\ store = NoRooms /\ Takes(t) /\ CreateRoom(t, m)
  \/ \E t \in Threads, code \in DOMAIN store :
       /\ Takes(t) /\ ntok < store[code].maxPlayers
       /\ JoinRoom(t, code, NamePool[ntok + 1], RoomWindow)
  \/ \E t \in Threads : Audit(t)
  \/ \E t \in Threads : Save(t)
  \/ \E t \in Threads : Reply(t)

SpecRace == Init /\ [][NextRace]_vars

(***************************************************************************)
(* Polling: one /api/room request and then /api/join requests arrive when  *)
(* no thread is busy, /api/me requests arrive at any time no such request  *)
(* is handled.                                                             *)
(***************************************************************************)
NoWriter == \A t \in Threads : th[t].req.op \in {"none", "me"}

NextPoll ==
  \/ \E t \in Threads, m \in MinPlayers..MaxRoomSize :
       AllIdle /\ store = NoRooms /\ Takes(t) /\ CreateRoom(t, m)
  \/ \E t \in Threads, code \in DOMAIN store :
       AllIdle /\ Takes(t) /\ JoinRoom(t, code, NextName(code), RoomWindow)
  \/ \E t \in Threads, code \in Codes : \E token \in TokensOf(code) :
       NoWriter /\ Takes(t) /\ GetView(t, code, token, RoomWindow)
  \/ \E t \in Threads : Audit(t)
  \/ \E t \in Threads : Save(t)
  \/ \E t \in Threads : Reply(t)

SpecPoll == Init /\ [][NextPoll]_vars

(***************************************************************************)
(* Two room codes: requests of every kind arrive at any time, rooms are    *)
(* created with one of two codes, for MinPlayers players; MinPlayers joins *)
(* arrive, the k-th with the name NamePool[k].                             *)
(***************************************************************************)
CodePair == {CodePool[1], CodePool[2]}

NextRooms ==
  \/ \E t \in Threads :
       /\ Takes(t) /\ clock < MaxTicks
       /\ CreateRoomWith(t, DefaultTaskCount, DefaultSameType, MinPlayers, CodePair)
  \/ \E t \in Threads, code \in CodePair :
       /\ Takes(t) /\ ntok < MinPlayers
       /\ JoinRoom(t, code, NamePool[ntok + 1], ConcWindow)
  \/ \E t \in Threads, code \in CodePair : \E token \in TokensOf(code) :
       Takes(t) /\ GetView(t, code, token, ConcWindow)
  \/ \E t \in Threads : Audit(t)
  \/ \E t \in Threads : Save(t)
  \/ \E t \in Threads : Reply(t)

SpecRooms == Init /\ [][NextRooms]_vars

(***************************************************************************)
(* A failing write: requests are handled one after another as in SpecSeq,  *)
(* and _save_rooms of the join that fills the room can raise (open,        *)
(* json.dump or os.replace fails) the first time the room is filled.  The  *)
(* rooms file is then as it was, the exception leaves do_POST and the      *)
(* thread ends without an answer.                                          *)
(***************************************************************************)
SaveFails(t) ==
  /\ th[t].pc = "save" /\ th[t].req.op = "join"
  /\ th[t].data[th[t].req.code].assigned
  /\ Len(audit) = Len(th[t].data[th[t].req.code].players)
  /\ th' = [th EXCEPT ![t] = IdleThread]
  /\ UNCHANGED <<store, audit, clock, ntok, fn>>

NextFail ==
  \/ \E t \in Threads, m \in MinPlayers..MaxPlayers :
       AllIdle /\ store = NoRooms /\ Takes(t) /\ CreateRoom(t, m)
  \/ \E t \in Threads, code \in DOMAIN store :
       AllIdle /\ Takes(t) /\ JoinRoom(t, code, NextName(code), RoomWindow)
  \/ \E t \in Threads, code \in Codes : \E token \in TokensOf(code) :
       AllIdle /\ Takes(t) /\ GetView(t, code, token, RoomWindow)
  \/ \E t \in Threads : Audit(t)
  \/ \E t \in Threads : Save(t)
  \/ \E t \in Threads : SaveFails(t)
  \/ \E t \in Threads : Reply(t)

SpecFail == Init /\ [][NextFail]_vars

(***************************************************************************)
(* /api/room on its own: one request, with any numbers in its body.        *)
(***************************************************************************)
NextCreate ==
  \/ \E t \in Threads,
        task_count \in (MinTaskCount - InputSpan)..(MaxTaskCount + InputSpan),
        max_same_type \in (MinSameType - InputSpan)..(MaxSameType + InputSpan),
        max_players \in (MinPlayers - InputSpan)..(MaxPlayers + InputSpan) :
       /\ AllIdle /\ store = NoRooms /\ Takes(t)
       /\ CreateRoomWith(t, task_count, max_same_type, max_players, Codes)
  \/ \E t \in Threads : Save(t)
  \/ \E t \in Threads : Reply(t)

SpecCreate == Init /\ [][NextCreate]_vars

(***************************************************************************)
(* A function applied on its own.  The draws of its shuffle are made one   *)
(* iteration at a time (RandBelow, from i = n - 1 down to 1), at most      *)
(* `swaps` of them with j # i; then the function is applied to arguments   *)
(* chosen at the call.                                                     *)
(***************************************************************************)
FnStart(op, n, k) ==
  [op |-> op, pc |-> IF n > 1 THEN "rand" ELSE "call", n |-> n,
   i |-> n - 1, swaps |-> k, js |-> NoSwapDraws(n)]

RandBelow ==
  /\ fn.op # "none" /\ fn.pc = "rand"
  /\ \E j \in 0..fn.i :
       /\ j # fn.i => fn.swaps > 0
       /\ fn' = [fn EXCEPT !.js[fn.i] = j,
                           !.i = fn.i - 1,
                           !.swaps = IF j # fn.i THEN fn.swaps - 1 ELSE fn.swaps,
                           !.pc = IF fn.i = 1 THEN "call" ELSE "rand"]
  /\ UNCHANGED <<store, audit, clock, ntok, th>>

(***************************************************************************)
(* _draw_tasks applied on its own.                                         *)
(***************************************************************************)
InitDraw ==
  /\ store = NoRooms /\ audit = <<>> /\ clock = 0 /\ ntok = 0
  /\ th = [t \in Threads |-> IdleThread]
  /\ fn = FnStart("draw", Len(TASK_POOL), TaskSwaps)

Draw ==
  /\ fn.op = "draw" /\ fn.pc = "call"
  /\ \E c \in MinTaskCount..MaxTaskCount, m \in MinSameType..MaxSameType :
       fn' = [op |-> "draw", pc |-> "return", count |-> c,
              max_same_type |-> m, js |-> fn.js,
              out |-> DrawTasks(c, m, fn.js)]
  /\ UNCHANGED <<store, audit, clock, ntok, th>>

SpecDraw == InitDraw /\ [][RandBelow \/ Draw]_vars

(***************************************************************************)
(* _assign_lanes applied on its own to the players of a full room.         *)
(***************************************************************************)
BarePlayers(n) == [k \in 1..n |-> [name |-> k, token |-> k, joinedAt |-> 0]]

InitLanes ==
  /\ store = NoRooms /\ audit = <<>> /\ clock = 0 /\ ntok = 0
  /\ th = [t \in Threads |-> IdleThread]
  /\ \E m \in MinPlayers..MaxPlayers : fn = FnStart("lanes", m, LaneSwaps)

Lanes ==
  /\ fn.op = "lanes" /\ fn.pc = "call"
  /\ fn' = [op |-> "lanes", pc |-> "return", max_players |-> fn.n,
            js |-> fn.js,
            players |-> AssignLanes(BarePlayers(fn.n), fn.n, fn.js)]
  /\ UNCHANGED <<store, audit, clock, ntok, th>>

SpecLanes == InitLanes /\ [][RandBelow \/ Lanes]_vars

(***************************************************************************)
(* Properties.                                                             *)
(***************************************************************************)
Rooms == DOMAIN store

\* the audit records written for a room
AuditOf(code) == {k \in 1..Len(audit) : audit[k].room = code}

Replying(t) == th[t].pc = "reply"

\* C1: when as many joins with distinct names as a fresh room has slots
\* have run, in any interleaving, the audit log holds exactly one record
\* set for the room: maxPlayers records.
C1_OneAssignmentPerFilledRoom ==
  \A code \in Rooms :
    (ntok = store[code].maxPlayers /\ AllIdle)
      => Cardinality(AuditOf(code)) = store[code].maxPlayers

\* C2: every stored room has at most maxPlayers players.
C2_PlayersWithinMax ==
  \A code \in Rooms : Len(store[code].players) <= store[code].maxPlayers

\* a stored room is full while a join to it is turned away as RoomFull
C2_Witness ==
  \E t \in Threads, code \in Rooms :
    /\ Len(store[code].players) = store[code].maxPlayers
    /\ Replying(t) /\ th[t].req.code = code
    /\ th[t].resp = Error(409, "RoomFull")

\* C3: the stored flag assigned of a room, once true, is true in every later
\* stored state of that room.
C3_AssignedNeverReverts ==
  [][\A code \in Rooms :
       (/\ store[code].assigned
        /\ code \in DOMAIN store'
        /\ store'[code].createdAt = store[code].createdAt)
         => store'[code].assigned]_vars

\* C4: with requests handled one after the other, a join that leaves fewer
\* than maxPlayers players in its room answers waiting, the join that makes
\* them maxPlayers answers assigned, and a view of a room answers assigned
\* exactly when the room has had maxPlayers joins.
C4_SequentialStatus ==
  \A t \in Threads :
    (Replying(t) /\ th[t].resp.status = 200 /\ th[t].req.op \in {"join", "me"})
      => LET room == store[th[t].req.code]
             k == Len(room.players)
         IN  /\ th[t].resp.joined = k
             /\ th[t].resp.maxPlayers = room.maxPlayers
             /\ th[t].resp.state =
                  IF k < room.maxPlayers THEN "waiting" ELSE "assigned"

\* a view answers assigned in a room of the largest size, after a join to
\* it was answered waiting
C4_Witness ==
  \E t \in Threads :
    /\ Replying(t) /\ th[t].req.op = "me" /\ th[t].resp.status = 200
    /\ th[t].resp.state = "assigned"
    /\ th[t].resp.maxPlayers = MaxPlayers
    /\ th[t].resp.joined = MaxPlayers

\* C5: in a stored room that is assigned, undercoverIndex is in
\* 0..maxPlayers-1, the room has maxPlayers players, the player at
\* undercoverIndex is the only Impostor and every other player is Normal;
\* in a stored room that is not assigned no player has a role.
C5_OneImpostor ==
  \A code \in Rooms :
    LET room == store[code]
        players == room.players
    IN  IF room.assigned
        THEN /\ Has(room, "undercoverIndex")
             /\ room.undercoverIndex \in 0..(room.maxPlayers - 1)
             /\ Len(players) = room.maxPlayers
             /\ \A k \in 1..Len(players) :
                  /\ Has(players[k], "role")
                  /\ players[k].role =
                       IF k - 1 = room.undercoverIndex THEN Impostor ELSE Normal
             /\ Cardinality({k \in 1..Len(players) : players[k].role = Impostor}) = 1
             /\ Cardinality({k \in 1..Len(players) : players[k].role = Normal})
                  = room.maxPlayers - 1
        ELSE \A k \in 1..Len(players) : ~Has(players[k], "role")

\* a stored room whose impostor is not the first player
C5_Witness ==
  \E code \in Rooms :
    /\ store[code].assigned
    /\ store[code].undercoverIndex = 1
    /\ store[code].players[2].role = Impostor

\* C6: a stored room is either assigned with undercoverIndex,
\* undercoverTasks and assignedAt set and a role and a lane on every player,
\* or not assigned with none of these keys on the room or on any player.
AssignmentKeys == {"undercoverIndex", "undercoverTasks", "assignedAt"}
PlayerKeys == {"role", "lane", "assignedAt"}

C6_AssignmentAllOrNothing ==
  \A code \in Rooms :
    LET room == store[code]
        players == room.players
    IN  IF room.assigned
        THEN /\ AssignmentKeys \subseteq DOMAIN room
             /\ \A k \in 1..Len(players) : PlayerKeys \subseteq DOMAIN players[k]
        ELSE /\ AssignmentKeys \cap DOMAIN room = {}
             /\ \A k \in 1..Len(players) : PlayerKeys \cap DOMAIN players[k] = {}

\* an assigned room is stored while another thread is inside the loop of
\* _assign_if_ready with some players' roles not yet set
C6_Witness ==
  \E t \in Threads, code \in Rooms :
    /\ store[code].assigned
    /\ th[t].pc = "audit" /\ th[t].req.code = code
    /\ th[t].idx = 1

\* C7: _draw_tasks returns exactly taskCount tasks with pairwise distinct
\* ids, and no type more than maxSameType times whenever
\* 4 * maxSameType >= taskCount.
NumTypes == Len(TaskTypes)

C7_DrawWithinCap ==
  (fn.op = "draw" /\ fn.pc = "return")
    => /\ Len(fn.out) = fn.count
       /\ \A a, b \in 1..Len(fn.out) : a # b => fn.out[a].id # fn.out[b].id
       /\ \A a \in 1..Len(fn.out) :
            \E k \in 1..Len(TASK_POOL) : TASK_POOL[k] = fn.out[a]
       /\ NumTypes * fn.max_same_type >= fn.count
            => \A y \in 1..NumTypes :
                 TypeCount(fn.out, TaskTypes[y]) <= fn.max_same_type

\* taskCount = 4 and maxSameType = 1 give four tasks of four types, from a
\* pool the shuffle has changed
C7_Witness ==
  /\ fn.op = "draw" /\ fn.pc = "return"
  /\ fn.count = 4 /\ fn.max_same_type = 1
  /\ fn.js # NoSwapDraws(Len(TASK_POOL))
  /\ fn.out[1].type # "eco"
  /\ {fn.out[a].type : a \in 1..Len(fn.out)} = {"eco", "tf", "act", "psy"}

\* C10: after _assign_lanes every player has exactly one lane; for
\* maxPlayers <= 5 the lanes are pairwise distinct and are the first
\* maxPlayers lanes of LANE_POOL; for maxPlayers > 5 each lane LANE_POOL[q]
\* is held by as many players as there are k in 0..maxPlayers-1 with
\* k mod 5 = q - 1.
LaneHolders(players, lane) ==
  {k \in 1..Len(players) : Has(players[k], "lane") /\ players[k].lane = lane}

C10_LanesCoverPlayers ==
  (fn.op = "lanes" /\ fn.pc = "return")
    => LET players == fn.players
           m == fn.max_players
       IN  /\ Len(players) = m
           /\ \A k \in 1..m :
                /\ Has(players[k], "lane")
                /\ \E q \in 1..Len(LANE_POOL) : players[k].lane = LANE_POOL[q]
           /\ m <= 5 =>
                /\ \A a, b \in 1..m : a # b => players[a].lane # players[b].lane
                /\ {players[k].lane : k \in 1..m} = {LANE_POOL[q] : q \in 1..m}
           /\ \A q \in 1..Len(LANE_POOL) :
                Cardinality(LaneHolders(players, LANE_POOL[q]))
                  = Cardinality({k \in 0..(m - 1) : k % 5 = q - 1})

\* seven players, the shuffle has moved lanes: the first player does not
\* hold the first lane, and two players hold it
C10_Witness ==
  /\ fn.op = "lanes" /\ fn.pc = "return"
  /\ fn.max_players = 7
  /\ fn.players[1].lane # LANE_POOL[1]
  /\ Cardinality(LaneHolders(fn.players, LANE_POOL[1])) = 2

\* C8: the view sent to a Normal player, by /api/join or /api/me, has an
\* empty task list and is the same for every room that differs from the
\* player's room only in which other player is the impostor, in the other
\* players' lanes and in the content of undercoverTasks; a view with a
\* non-empty task list goes to the player at undercoverIndex.
OtherTasks(room) ==
  {room.undercoverTasks, <<>>, SubSeq(TASK_POOL, 16, 20)}

\* room with the impostor moved to Python index u, the lane of every player
\* but the one at Python index i shifted by s, and the tasks replaced
VariantOf(room, i, u, s, tasks) ==
  [room EXCEPT
     !.undercoverIndex = u,
     !.undercoverTasks = tasks,
     !.players = [k \in 1..Len(room.players) |->
                    IF k - 1 = i THEN room.players[k]
                    ELSE [room.players[k] EXCEPT
                            !.role = IF k - 1 = u THEN Impostor ELSE Normal,
                            !.lane = LANE_POOL[((k + s) % Len(LANE_POOL)) + 1]]]]

VariantsOf(room, i) ==
  { VariantOf(room, i, u, s, tasks) :
      u \in (0..(Len(room.players) - 1)) \ {i},
      s \in 0..2,
      tasks \in OtherTasks(room) }

C8_NormalViewIsolated ==
  \A t \in Threads :
    (/\ Replying(t) /\ th[t].resp.status = 200
     /\ th[t].req.op \in {"join", "me"}
     /\ th[t].resp.state = "assigned")
      => LET room == th[t].data[th[t].req.code]
             i == IndexOfToken(room.players, th[t].req.token)
         IN  /\ th[t].resp.tasks # <<>> => i = room.undercoverIndex
             /\ th[t].resp.role = Normal =>
                  /\ th[t].resp.tasks = <<>>
                  /\ th[t].resp.name = room.players[i + 1].name
                  /\ th[t].resp.lane = room.players[i + 1].lane
                  /\ \A other \in VariantsOf(room, i) :
                       Respond(th[t].req, other) = th[t].resp

\* a Normal player of a room of three polls and is answered, the impostor
\* being another player
C8_Witness ==
  \E t \in Threads :
    /\ Replying(t) /\ th[t].req.op = "me" /\ th[t].resp.status = 200
    /\ th[t].resp.state = "assigned"
    /\ th[t].resp.role = Normal /\ th[t].resp.tasks = <<>>
    /\ th[t].resp.maxPlayers = 3
    /\ th[t].data[th[t].req.code].undercoverIndex = 2

\* C9: a step of a thread handling /api/me that read the room as assigned
\* leaves undercoverIndex, undercoverTasks, assignedAt and the players
\* (roles and lanes) of that room, when stored as assigned, unchanged and
\* appends no audit record.
ViewStep(code) ==
  \E t \in Threads :
    /\ th'[t] # th[t]
    /\ \/ /\ th[t].req.op = "me" /\ th[t].req.code = code
          /\ Has(th[t].data, code) /\ th[t].data[code].assigned
       \/ /\ th'[t].req.op = "me" /\ th'[t].req.code = code
          /\ Has(th'[t].data, code) /\ th'[t].data[code].assigned

C9_ViewChangesNothing ==
  [][\A code \in Rooms :
       (store[code].assigned /\ ViewStep(code))
         => /\ code \in DOMAIN store'
            /\ store'[code].assigned
            /\ store'[code].undercoverIndex = store[code].undercoverIndex
            /\ store'[code].undercoverTasks = store[code].undercoverTasks
            /\ store'[code].assignedAt = store[code].assignedAt
            /\ store'[code].players = store[code].players
            /\ audit' = audit]_vars

\* two views of an assigned room are under way at once: one has saved and
\* answers an unknown token, the other is about to save
C9_Witness ==
  \E t, u \in Threads, code \in Rooms :
    /\ store[code].assigned
    /\ Replying(t) /\ th[t].req.op = "me" /\ th[t].req.code = code
    /\ th[t].resp = Error(403, "InvalidToken")
    /\ th[u].pc = "save" /\ th[u].req.op = "me" /\ th[u].req.code = code
    /\ th[u].data[code].assigned

\* a request of kind op about the room is being handled
InFlight(op, code) ==
  \E t \in Threads :
    th[t].pc # "idle" /\ th[t].req.op = op /\ th[t].req.code = code

\* the join that handed out the token has returned
JoinReturned(token) ==
  \A t \in Threads :
    th[t].pc # "idle" /\ th[t].req.op = "join" => th[t].req.token # token

\* C11: a stored player whose join has returned is, after every step that
\* keeps the room, still at the same position of the room's players, with
\* the same name and token.
C11_JoinedPlayersStay ==
  [][\A code \in Rooms :
       (/\ code \in DOMAIN store'
        /\ store'[code].createdAt = store[code].createdAt)
         => \A k \in 1..Len(store[code].players) :
              JoinReturned(store[code].players[k].token)
                => /\ k <= Len(store'[code].players)
                   /\ store'[code].players[k].name = store[code].players[k].name
                   /\ store'[code].players[k].token = store[code].players[k].token]_vars

\* C12: a stored room whose /api/room request has returned is, after every
\* step, still stored under its code with the same createdAt, maxPlayers
\* and settings.
C12_RoomsStay ==
  [][\A code \in Rooms :
       ~InFlight("room", code)
         => /\ code \in DOMAIN store'
            /\ store'[code].createdAt = store[code].createdAt
            /\ store'[code].maxPlayers = store[code].maxPlayers
            /\ store'[code].settings = store[code].settings]_vars

\* the names of the players stored in the room
NamesIn(code) == {store[code].players[k].name : k \in 1..Len(store[code].players)}

\* thread t is answering a /api/join request with an error
JoinRefused(t) ==
  th[t].pc = "reply" /\ th[t].req.op = "join" /\ th[t].resp.status # 200

\* C13: a /api/join request that reads a store without the code is answered
\* RoomNotFound; one that reads a room with a player of the same name is
\* answered NameTaken, full or not; one that reads a full room without the
\* name is answered RoomFull; a refused join goes from its read to its
\* answer and back to idle, no step of it changes the store or the audit log.
C13_JoinErrors ==
  [][\A t \in Threads :
       /\ (th[t].pc = "idle" /\ th'[t].req.op = "join")
            => LET code == th'[t].req.code
                   name == th'[t].req.name
               IN  /\ code \notin Rooms
                        => JoinRefused(t)' /\ th'[t].resp = Error(404, "RoomNotFound")
                   /\ (code \in Rooms /\ name \in NamesIn(code))
                        => JoinRefused(t)' /\ th'[t].resp = Error(409, "NameTaken")
                   /\ (/\ code \in Rooms /\ name \notin NamesIn(code)
                       /\ Len(store[code].players) = store[code].maxPlayers)
                        => JoinRefused(t)' /\ th'[t].resp = Error(409, "RoomFull")
       /\ (th'[t] # th[t] /\ (JoinRefused(t) \/ JoinRefused(t)'))
            => /\ store' = store /\ audit' = audit /\ ntok' = ntok
               /\ JoinRefused(t) => th'[t] = IdleThread]_vars

\* a join with the name of a player of a full room is answered NameTaken
\* while another thread is handling a request
C13_Witness ==
  \E t, u \in Threads, code \in Rooms :
    /\ JoinRefused(t) /\ th[t].req.code = code
    /\ th[t].resp = Error(409, "NameTaken")
    /\ Len(store[code].players) = store[code].maxPlayers
    /\ th[t].req.name = store[code].players[1].name
    /\ th[u].pc = "save"

\* thread t is answering a /api/me request
ViewAnswered(t) == th[t].pc = "reply" /\ th[t].req.op = "me"

\* C14: with requests handled one after another, /api/me is answered 404
\* RoomNotFound when no room has the code, 403 InvalidToken when the room
\* exists and none of its players holds the token, and 200 with the name
\* the token was handed out to (the k-th token went to NamePool[k]) when the
\* token is one a join to the room returned.
C14_ViewErrors ==
  \A t \in Threads :
    ViewAnswered(t)
      => LET code == th[t].req.code
             token == th[t].req.token
         IN  /\ code \notin Rooms <=> th[t].resp = Error(404, "RoomNotFound")
             /\ (code \in Rooms /\ token \notin 1..ntok)
                  <=> th[t].resp = Error(403, "InvalidToken")
             /\ (code \in Rooms /\ token \in 1..ntok)
                  => /\ th[t].resp.status = 200
                     /\ th[t].resp.name = NamePool[token]
                     /\ th[t].resp.room = code

\* the second player of a room of three polls and is answered with the
\* name bob
C14_Witness ==
  \E t \in Threads :
    /\ ViewAnswered(t) /\ th[t].req.token = 2
    /\ th[t].resp.status = 200 /\ th[t].resp.name = "bob"
    /\ th[t].resp.maxPlayers = 3 /\ th[t].resp.joined = 3

\* the audit records of the room, and those of its first assignment
RecordsOf(code) == SelectSeq(audit, LAMBDA r : r.room = code)
FirstRecords(code) == SubSeq(RecordsOf(code), 1, store[code].maxPlayers)

\* C15: once an assignment of a room has been computed (its audit records
\* are written) and its join has ended, with or without the write, the
\* stored room is full and assigned, its players have the roles and lanes
\* of those records, the player at undercoverIndex being the impostor, and
\* the room has no further audit records.
C15_FailedSaveKeepsAssignment ==
  \A code \in Rooms :
    (AllIdle /\ RecordsOf(code) # <<>>)
      => /\ store[code].assigned
         /\ Len(store[code].players) = store[code].maxPlayers
         /\ Len(RecordsOf(code)) = store[code].maxPlayers
         /\ \A k \in 1..store[code].maxPlayers :
              /\ store[code].players[k].name = FirstRecords(code)[k].name
              /\ store[code].players[k].role = FirstRecords(code)[k].role
              /\ store[code].players[k].lane = FirstRecords(code)[k].lane
              /\ FirstRecords(code)[k].role = Impostor
                   <=> store[code].undercoverIndex = k - 1

\* the audit records of the run of the assignment engine that assigned the
\* room at time ts
RunRecords(code, ts) ==
  SelectSeq(audit, LAMBDA r : r.room = code /\ r.ts = ts)

\* the first n records of the run that assigned the room are those of its
\* first n players, in join order
RecordsMatch(room, n) ==
  LET recs == RunRecords(room.code, room.assignedAt)
  IN  /\ Len(recs) = n
      /\ \A k \in 1..n :
           /\ recs[k].name = room.players[k].name
           /\ recs[k].role = room.players[k].role
           /\ recs[k].lane = room.players[k].lane
           /\ recs[k].settings = room.settings
           /\ recs[k].tasks = IF k - 1 = room.undercoverIndex
                              THEN room.undercoverTasks ELSE <<>>

\* C16: a run of the assignment engine that has reached player idx has
\* written idx records, a finished run one record per player of the room,
\* in join order, with the player's name, role and lane and, for the player
\* at undercoverIndex alone, the room's undercoverTasks; the same holds of
\* every assigned room that is stored.
C16_AuditPerPlayer ==
  /\ \A t \in Threads :
       (/\ th[t].pc \in {"audit", "save", "reply"}
        /\ Has(th[t].data, th[t].req.code)
        /\ th[t].data[th[t].req.code].assigned)
         => LET room == th[t].data[th[t].req.code]
            IN  RecordsMatch(room, IF th[t].pc = "audit" THEN th[t].idx
                                   ELSE room.maxPlayers)
  /\ \A code \in Rooms :
       store[code].assigned => RecordsMatch(store[code], store[code].maxPlayers)

\* two runs of the engine have written their records for the same room,
\* one of them is stored
C16_Witness ==
  \E code \in Rooms :
    /\ store[code].assigned
    /\ Len(RunRecords(code, store[code].assignedAt)) = store[code].maxPlayers
    /\ Len(RecordsOf(code)) = 2 * store[code].maxPlayers

\* n brought into lo..hi
Within(n, lo, hi) == IF n < lo THEN lo ELSE IF n > hi THEN hi ELSE n

\* the room /api/room makes of a body
RoomOf(room, body) ==
  /\ room.maxPlayers = Within(body.maxPlayers, 2, 12)
  /\ room.settings.taskCount = Within(body.taskCount, 3, 5)
  /\ room.settings.maxSameType = Within(body.maxSameType, 1, 5)
  /\ room.players = <<>>
  /\ room.assigned = FALSE
  /\ DOMAIN room = {"code", "createdAt", "maxPlayers", "settings", "players",
                    "assigned"}

\* C17: the room a /api/room request saves has maxPlayers, taskCount and
\* maxSameType equal to the body's numbers brought into 2..12, 3..5 and
\* 1..5, no players and assigned false; the request is answered 200 with
\* the room's code, maxPlayers and settings.
C17_CreateClamps ==
  \A t \in Threads :
    (th[t].pc \in {"save", "reply"} /\ th[t].req.op = "room")
      => LET code == th[t].req.code
         IN  /\ RoomOf(th[t].data[code], th[t].req.body)
             /\ th[t].pc = "reply"
                  => /\ code \in Rooms /\ store[code] = th[t].data[code]
                     /\ th[t].resp.status = 200
                     /\ th[t].resp.code = code
                     /\ th[t].resp.maxPlayers = store[code].maxPlayers
                     /\ th[t].resp.settings = store[code].settings

\* a body with every number above its range is answered with the greatest
\* values
C17_Witness ==
  \E t \in Threads :
    /\ Replying(t) /\ th[t].req.op = "room"
    /\ th[t].req.body = [taskCount |-> 7, maxSameType |-> 6, maxPlayers |-> 14]
    /\ th[t].resp.maxPlayers = 12
    /\ th[t].resp.settings = [taskCount |-> 5, maxSameType |-> 5]

\* the position of a task in a pool
PositionIn(pool, task) == CHOOSE k \in 1..Len(pool) : pool[k].id = task.id

\* the positions of a pool whose task has fewer than m tasks of its type
\* before it
UnderCap(pool, m) ==
  {k \in 1..Len(pool) :
     Cardinality({h \in 1..(k - 1) : pool[h].type = pool[k].type}) < m}

\* how many positions of the set lie before position k
Before(positions, k) == Cardinality({h \in positions : h < k})

\* C18: with pool the shuffled task pool, the result of the draw starts with
\* the first tasks of the pool that are under the cap, in pool order, up to
\* taskCount of them; there are fewer than taskCount such tasks exactly when
\* taskCount = 5 and maxSameType = 1, and the result then goes on with the
\* first tasks of the pool that are over the cap, in pool order, and has
\* one type with two tasks and three types with one.
C18_GreedyThenBackfill ==
  (fn.op = "draw" /\ fn.pc = "return")
    => LET pool == Shuffle(TASK_POOL, fn.js)
           under == UnderCap(pool, fn.max_same_type)
           over == (1..Len(pool)) \ under
           greedy == Min2(fn.count, Cardinality(under))
       IN  /\ Len(fn.out) = fn.count
           /\ \A a \in 1..greedy :
                /\ PositionIn(pool, fn.out[a]) \in under
                /\ Before(under, PositionIn(pool, fn.out[a])) = a - 1
           /\ greedy < fn.count <=> (fn.count = 5 /\ fn.max_same_type = 1)
           /\ \A a \in (greedy + 1)..fn.count :
                /\ PositionIn(pool, fn.out[a]) \in over
                /\ Before(over, PositionIn(pool, fn.out[a])) = a - greedy - 1
           /\ greedy < fn.count
                => /\ Cardinality({y \in 1..NumTypes :
                                     TypeCount(fn.out, TaskTypes[y]) = 2}) = 1
                   /\ Cardinality({y \in 1..NumTypes :
                                     TypeCount(fn.out, TaskTypes[y]) = 1}) = 3

\* five tasks at most one of a type, from a pool whose first task the
\* shuffle has replaced: the fifth task comes from the second pass and
\* repeats the type of the second
C18_Witness ==
  /\ fn.op = "draw" /\ fn.pc = "return"
  /\ fn.count = 5 /\ fn.max_same_type = 1
  /\ fn.out[1].id # TASK_POOL[1].id
  /\ fn.out[5] = Shuffle(TASK_POOL, fn.js)[3]
  /\ fn.out[5].type = fn.out[2].type

\* C19: a stored room is assigned exactly when it has maxPlayers players,
\* and no /api/me request is ever in the loop of _assign_if_ready.
C19_AssignedIffFull ==
  /\ \A code \in Rooms :
       store[code].assigned
         <=> Len(store[code].players) = store[code].maxPlayers
  /\ \A t \in Threads : th[t].req.op = "me" => th[t].pc # "audit"

\* a stale save has taken the stored room back to one player, unassigned,
\* after an assignment of the room was audited, and a /api/me request has
\* read it
C19_Witness ==
  \E t \in Threads, code \in Rooms :
    /\ RecordsOf(code) # <<>>
    /\ ~store[code].assigned /\ Len(store[code].players) = 1
    /\ th[t].req.op = "me" /\ th[t].pc = "save"
    /\ th[t].data[code] = store[code]
    /\ \A u \in Threads \ {t} : th[u].pc = "idle"

\* thread t is answering, with an assigned view, the player whose join
\* filled the room it read
FillerAnswered(t, code) ==
  /\ Replying(t) /\ th[t].req.op \in {"join", "me"} /\ th[t].req.code = code
  /\ th[t].resp.status = 200 /\ th[t].resp.state = "assigned"
  /\ th[t].req.token = th[t].data[code].players[th[t].data[code].maxPlayers].token

\* C20: the role, lane and tasks in the answer to the join that fills a
\* room and in the answer to every later /api/me with that join's token are
\* those of the audit record written for that player by the run of the
\* engine that assigned the room; on the room either request read, the role
\* /api/join derives from undercoverIndex and the role /api/me reads from
\* the player give the same role, lane and tasks; and the rooms two threads
\* have read with the same filling player were assigned by the same run.
C20_JoinAndViewAgree ==
  \A t \in Threads, code \in Codes :
    FillerAnswered(t, code)
      => LET room == th[t].data[code]
             rec == RunRecords(code, room.assignedAt)[room.maxPlayers]
             join == JoinResponse(room, th[t].req.token, th[t].resp.name)
             me == MeResponse(room, th[t].req.token)
         IN  /\ rec.name = th[t].resp.name
             /\ th[t].resp.role = rec.role
             /\ th[t].resp.lane = rec.lane
             /\ th[t].resp.tasks = rec.tasks
             /\ join.role = me.role /\ join.lane = me.lane
             /\ join.tasks = me.tasks
             /\ \A u \in Threads :
                  FillerAnswered(u, code) /\ th[u].req.token = th[t].req.token
                    => th[u].data[code].assignedAt = room.assignedAt
             /\ (/\ code \in Rooms /\ store[code].assigned
                 /\ store[code].players[store[code].maxPlayers].token = th[t].req.token)
                  => store[code].assignedAt = room.assignedAt

\* the player whose join filled a room of three is the impostor and polls
C20_Witness ==
  \E t \in Threads, code \in Rooms :
    /\ FillerAnswered(t, code) /\ th[t].req.op = "me"
    /\ store[code].maxPlayers = 3
    /\ th[t].resp.role = Impostor /\ th[t].resp.tasks # <<>>
    /\ th[t].resp.name = "cat"
====
